---- MODULE Spec2Model ----
(***************************************************************************)
(* Model of the two aggregation handlers of the movie API:                 *)
(*   getMoviesByGenre    (category search, "findByCategory")               *)
(*   getRecommendations  (relation search, "findRelated")                  *)
(* as written in src/unnamed/part_001, the one variant of the three source *)
(* files that builds and implements both handlers.  src/main.go has the    *)
(* same getMoviesByGenre and a getRecommendations that answers a fixed     *)
(* list; src/unnamed/part_000 calls fetchSearchPage and a two-result       *)
(* fetchFromOMDb that no file defines.                                     *)
(* One behaviour is one HTTP request.  Every call to the OMDb provider is  *)
(* one step; the provider's answer is chosen by the environment.           *)
(*                                                                         *)
(* Strings the code only compares or copies (imdbRating, imdbID) are       *)
(* atoms; strings the code splits, trims or case-folds (Genre, Director,   *)
(* Actors, the genre parameter) are sequences of one-character strings.    *)
(* imdbID "tt<n>" is the integer n.                                        *)
(***************************************************************************)
EXTENDS Integers, Sequences, FiniteSets, TLC

VARIABLES
    op,        \* which handler serves the request: "genre" | "rec"
    param,     \* the query parameter: genre, or favorite_movie
    pc,        \* position of the handler
    prov,      \* the provider stub of this request (environment)
    idx,       \* index of the current seed (genre) or keyword (rec)
    page,      \* page variable of the collect loop
    items,     \* results.Search / search.Search of the page being walked
    itemIdx,   \* index of the current item
    results,   \* matchingMovies, or collect's results
    seen,      \* the seen map of getRecommendations
    favMovie,  \* the resolved favourite movie
    axis,      \* which collect call is running: 1 Genre, 2 Director, 3 Actor
    recs,      \* genreRecs, directorRecs, actorRecs
    response,  \* what c.JSON was given
    lastCall,  \* history: the latest provider call and its outcome
    prevCall,  \* history: the provider call before the latest one
    resolved,  \* history: records the by-id lookups returned, in order
    unranked   \* history: each list as it stood right before sort.Slice

vars == <<op, param, pc, prov, idx, page, items, itemIdx, results, seen,
          favMovie, axis, recs, response, lastCall, prevCall, resolved,
          unranked>>

----------------------------------------------------------------------------
(* Bounds of the environment *)

\* free stub: total number of search hits the provider hands out
MaxHits == 2
\* bulk stub: number of hits on every page
BulkPageLen == 10

(* Program constants *)
GenreLimit == 15
RecLimit == 5
MaxPage == 3

Min(a, b) == IF a < b THEN a ELSE b

----------------------------------------------------------------------------
(* strings *)

NA == <<"N", "/", "A">>

\* unicode simple case folding, on the letters used here
Fold(c) == CASE c = "A" -> "a" [] c = "B" -> "b" [] c = "C" -> "c"
             [] c = "D" -> "d" [] c = "N" -> "n" [] OTHER -> c

EqualFold(s, t) ==
    /\ Len(s) = Len(t)
    /\ \A i \in 1..Len(s) : Fold(s[i]) = Fold(t[i])

IsSpace(c) == c = " "

RECURSIVE TrimLeft(_)
TrimLeft(s) == IF s # <<>> /\ IsSpace(Head(s)) THEN TrimLeft(Tail(s)) ELSE s

RECURSIVE TrimRight(_)
TrimRight(s) ==
    IF s # <<>> /\ IsSpace(s[Len(s)])
    THEN TrimRight(SubSeq(s, 1, Len(s) - 1))
    ELSE s

TrimSpace(s) == TrimRight(TrimLeft(s))

\* strings.Split(s, ","): always at least one piece
RECURSIVE Split(_)
Split(s) ==
    IF \E i \in 1..Len(s) : s[i] = ","
    THEN LET i == CHOOSE k \in 1..Len(s) :
                      s[k] = "," /\ \A j \in 1..(k - 1) : s[j] # ","
         IN  <<SubSeq(s, 1, i - 1)>> \o Split(SubSeq(s, i + 1, Len(s)))
    ELSE <<s>>

\* strconv.ParseFloat on the rating strings of this model, in tenths;
\* on an error the value is 0
ParseFloat(s) ==
    CASE s = "6.0"  -> [val |-> 60, err |-> FALSE]
      [] s = "7.5"  -> [val |-> 75, err |-> FALSE]
      [] s = "7.50" -> [val |-> 75, err |-> FALSE]
      [] s = "9.1"  -> [val |-> 91, err |-> FALSE]
      [] OTHER      -> [val |-> 0, err |-> TRUE]

\* r, _ := strconv.ParseFloat(m["imdbRating"].(string), 64)
Rating(m) == ParseFloat(m.imdbRating).val

----------------------------------------------------------------------------
(* sort.Slice *)

\* a less function with the comparison turned round
LessAscending(a, b) == Rating(a) < Rating(b)

\* the less function given to sort.Slice
Less(a, b) == Rating(a) > Rating(b)

RECURSIVE InsertAfterEquals(_, _)
InsertAfterEquals(s, e) ==
    IF s = <<>> THEN <<e>>
    ELSE IF Less(e, Head(s)) THEN <<e>> \o s
    ELSE <<Head(s)>> \o InsertAfterEquals(Tail(s), e)

RECURSIVE InsertBeforeEquals(_, _)
InsertBeforeEquals(s, e) ==
    IF s = <<>> THEN <<e>>
    ELSE IF ~Less(Head(s), e) THEN <<e>> \o s
    ELSE <<Head(s)>> \o InsertBeforeEquals(Tail(s), e)

RECURSIVE SortKeepingTies(_)
SortKeepingTies(s) ==
    IF s = <<>> THEN <<>>
    ELSE InsertAfterEquals(SortKeepingTies(SubSeq(s, 1, Len(s) - 1)), s[Len(s)])

RECURSIVE SortReversingTies(_)
SortReversingTies(s) ==
    IF s = <<>> THEN <<>>
    ELSE InsertBeforeEquals(SortReversingTies(SubSeq(s, 1, Len(s) - 1)), s[Len(s)])

\* sort.Slice orders by Less and "is not guaranteed to be stable: equal
\* elements may be reversed from their original order".  Two of the orders
\* it may produce: equal elements kept, equal elements reversed.
SortSlice(s) == {SortKeepingTies(s), SortReversingTies(s)}

----------------------------------------------------------------------------
(* The OMDb provider (environment).                                        *)
(* A "free" stub answers every call as it likes (any failure pattern, any  *)
(* page, any record) but hands out at most MaxHits search hits.  A "bulk"  *)
(* stub serves full pages of fresh ids with fixed records for its first    *)
(* prov.ok search calls and fails every later search call.                 *)
(* A by-id lookup that succeeds returns the record of the id asked for.    *)

FreeIDs == {1, 2}
FreeRatings == {"N/A", "", "7.5", "7.50", "9.1"}
FreeGenres == {<<"a">>, <<"b", ",", " ", "A", " ">>, <<"a", "b">>}
BulkOkCalls == {2, 7}
BulkSeedID == 3
BulkRatings == <<"6.0", "7.5", "7.50", "9.1">>
BulkGenres == << <<"a">>, <<"b">>, <<"b", ",", " ", "A">>, <<"a", "b">>,
                 <<"A", ",", "b">> >>

NoMovie == [IMDBID |-> 0, IMDBRating |-> "", Genre |-> <<>>,
            Director |-> <<>>, Actors |-> <<>>]

Candidate(id, rating, genre) ==
    [IMDBID |-> id, IMDBRating |-> rating, Genre |-> genre,
     Director |-> <<>>, Actors |-> <<>>]

\* the favourite movies a title lookup may return
SeedRecords(ids) ==
    {[IMDBID |-> id, IMDBRating |-> "7.5", Genre |-> g.genre,
      Director |-> g.director, Actors |-> g.actors] :
        id \in ids,
        g \in {[genre |-> <<"a", ",", " ", "b">>, director |-> NA,
                actors |-> <<>>],
               [genre |-> <<"a">>, director |-> <<" ", "c">>,
                actors |-> <<"d">>]}}

BulkRecord(id) ==
    Candidate(id, BulkRatings[(id % Len(BulkRatings)) + 1],
              BulkGenres[(id % Len(BulkGenres)) + 1])

Pages(ids, n) == UNION {[1..k -> ids] : k \in 0..n}

\* fetchFromOMDb for a search: the outcomes, each with the stub afterwards
SearchOutcomes(p) ==
    IF p.mode = "free"
    THEN {[ok |-> FALSE, items |-> <<>>, prov |-> p]}
         \cup {[ok |-> TRUE, items |-> s,
                prov |-> [p EXCEPT !.hits = p.hits - Len(s)]] :
                    s \in Pages(FreeIDs, p.hits)}
    ELSE IF p.ok > 0
         THEN {[ok |-> TRUE,
                items |-> [i \in 1..BulkPageLen |-> p.next + i - 1],
                prov |-> [p EXCEPT !.ok = p.ok - 1,
                                   !.next = p.next + BulkPageLen]]}
         ELSE {[ok |-> FALSE, items |-> <<>>, prov |-> p]}

\* fetchFromOMDb for a lookup by id
MovieOutcomes(p, id, genres) ==
    IF p.mode = "free"
    THEN {[ok |-> FALSE, movie |-> NoMovie]}
         \cup {[ok |-> TRUE, movie |-> Candidate(id, r, g)] :
                    r \in FreeRatings, g \in genres}
    ELSE {[ok |-> TRUE, movie |-> BulkRecord(id)]}

\* fetchFromOMDb for a lookup by title
SeedOutcomes(p) ==
    {[ok |-> FALSE, movie |-> NoMovie]}
    \cup {[ok |-> TRUE, movie |-> m] :
            m \in SeedRecords(IF p.mode = "free" THEN FreeIDs ELSE {BulkSeedID})}

NoCall == [n |-> 0, kind |-> "none", axis |-> 0, idx |-> 0, page |-> 0,
           id |-> 0, ok |-> TRUE]

\* history of a provider call: its number, what was asked (for a search
\* the axis, the index of the term and the page; for a lookup the id) and
\* whether it succeeded
Record(kind, ax, i, pg, id, ok) ==
    /\ lastCall' = [n |-> lastCall.n + 1, kind |-> kind, axis |-> ax,
                    idx |-> i, page |-> pg, id |-> id, ok |-> ok]
    /\ prevCall' = lastCall

----------------------------------------------------------------------------
(* Initial state: a request has arrived *)

NoResponse == [status |-> 0, movies |-> <<>>, recs |-> << <<>>, <<>>, <<>> >>]

Stubs ==
    {[mode |-> "free", hits |-> MaxHits, ok |-> 0, next |-> 0]}
    \cup {[mode |-> "bulk", hits |-> 0, ok |-> k, next |-> 1] : k \in BulkOkCalls}

Init ==
    /\ op \in {"genre", "rec"}
    /\ param \in IF op = "genre" THEN {<<>>, <<"a">>} ELSE {<<>>, <<"m">>}
    /\ prov \in Stubs
    /\ pc = "start"
    /\ idx = 1
    /\ page = 1
    /\ items = <<>>
    /\ itemIdx = 1
    /\ results = <<>>
    /\ seen = {}
    /\ favMovie = NoMovie
    /\ axis = 1
    /\ recs = << <<>>, <<>>, <<>> >>
    /\ response = NoResponse
    /\ lastCall = NoCall
    /\ prevCall = NoCall
    /\ resolved = <<>>
    /\ unranked = << <<>>, <<>>, <<>> >>

----------------------------------------------------------------------------
(* getMoviesByGenre *)

SearchSeeds == <<"the", "a", "love", "man", "girl", "night", "day">>

\* the map appended for an accepted movie; ord is history: the number of
\* the by-id lookup that produced it
Entry(movie, why) ==
    [imdbID |-> movie.IMDBID, imdbRating |-> movie.IMDBRating,
     Genre |-> movie.Genre, Why |-> why, ord |-> Len(resolved) + 1]

\* a test of the score that leaves err unread
RejectedOnScoreOnly(out) == out.movie.IMDBRating = "N/A"

\* err != nil || movie.IMDBRating == "N/A"
Rejected(out) == ~out.ok \/ out.movie.IMDBRating = "N/A"

\* a match that leaves the whitespace around a piece in place
GenreMatchesUntrimmed(field, genre) ==
    \E i \in 1..Len(Split(field)) : EqualFold(Split(field)[i], genre)

\* some piece of strings.Split(movie.Genre, ",") equals genre under
\* strings.EqualFold(strings.TrimSpace(g), genre)
GenreMatches(field, genre) ==
    \E i \in 1..Len(Split(field)) : EqualFold(TrimSpace(Split(field)[i]), genre)

\* the cut taken before the sort
CapThenRank(list) == SortSlice(SubSeq(list, 1, Min(Len(list), GenreLimit)))

\* sort.Slice, then matchingMovies[:15] when longer
RankAndCap(list) ==
    {SubSeq(s, 1, Min(Len(s), GenreLimit)) : s \in SortSlice(list)}

GenreStart ==
    /\ pc = "start" /\ op = "genre"
    /\ \/ /\ param = <<>>
          /\ response' = [NoResponse EXCEPT !.status = 400]
          /\ pc' = "done"
       \/ /\ param # <<>>
          /\ response' = response
          /\ pc' = "gen_seed"
    /\ UNCHANGED <<op, param, prov, idx, page, items, itemIdx, results, seen,
                   favMovie, axis, recs, lastCall, prevCall, resolved, unranked>>

\* results, err := fetchSearchResults(seed)
GenreSearch ==
    /\ pc = "gen_seed" /\ idx <= Len(SearchSeeds)
    /\ \E out \in SearchOutcomes(prov) :
          /\ prov' = out.prov
          /\ Record("search", 0, idx, 1, 0, out.ok)
          /\ \/ /\ ~out.ok
                /\ idx' = idx + 1
                /\ UNCHANGED <<pc, items, itemIdx>>
             \/ /\ out.ok /\ out.items = <<>>
                /\ idx' = idx + 1
                /\ UNCHANGED <<pc, items, itemIdx>>
             \/ /\ out.ok /\ out.items # <<>>
                /\ items' = out.items
                /\ itemIdx' = 1
                /\ pc' = "gen_item"
                /\ idx' = idx
    /\ UNCHANGED <<op, param, page, results, seen, favMovie, axis, recs,
                   response, resolved, unranked>>

\* the body of "for _, item := range results.Search"
GenreResolve ==
    /\ pc = "gen_item"
    /\ \E out \in MovieOutcomes(prov, items[itemIdx], FreeGenres) :
          /\ Record("movie", 0, idx, 1, items[itemIdx], out.ok)
          /\ resolved' = IF out.ok THEN Append(resolved, out.movie) ELSE resolved
          /\ \/ /\ Rejected(out)
                /\ results' = results
             \/ /\ ~Rejected(out) /\ ~GenreMatches(out.movie.Genre, param)
                /\ results' = results
             \/ /\ ~Rejected(out) /\ GenreMatches(out.movie.Genre, param)
                /\ results' = Append(results, Entry(out.movie, "none"))
    /\ IF itemIdx < Len(items)
       THEN /\ itemIdx' = itemIdx + 1
            /\ UNCHANGED <<pc, idx, items>>
       ELSE /\ idx' = idx + 1
            /\ pc' = "gen_seed"
            /\ items' = <<>>
            /\ itemIdx' = 1
    /\ UNCHANGED <<op, param, prov, page, seen, favMovie, axis, recs,
                   response, unranked>>

\* after the seed loop: sort, cap, c.JSON(http.StatusOK, matchingMovies)
GenreRespond ==
    /\ pc = "gen_seed" /\ idx > Len(SearchSeeds)
    /\ \E ranked \in RankAndCap(results) :
          response' = [NoResponse EXCEPT !.status = 200, !.movies = ranked]
    /\ unranked' = [unranked EXCEPT ![1] = results]
    /\ pc' = "done"
    /\ UNCHANGED <<op, param, prov, idx, page, items, itemIdx, results, seen,
                   favMovie, axis, recs, lastCall, prevCall, resolved>>

----------------------------------------------------------------------------
(* getRecommendations *)

AxisName(ax) == CASE ax = 1 -> "Genre" [] ax = 2 -> "Director" [] OTHER -> "Actor"

\* genres, directors, actors: the keywords argument of each collect call
Keywords(ax) ==
    Split(CASE ax = 1 -> favMovie.Genre
            [] ax = 2 -> favMovie.Director
            [] OTHER  -> favMovie.Actors)

\* a seen map that starts empty
InitSeenEmpty(movie) == {}

\* seen := map[string]bool{favMovie.IMDBID: true}
InitSeen(movie) == {movie.IMDBID}

\* kw == "" || kw == "N/A", after strings.TrimSpace
SkipKeyword(kw) == TrimSpace(kw) = <<>> \/ TrimSpace(kw) = NA

\* page <= 3 && len(results) < limit
PageLoopRuns(pg, list) == pg <= MaxPage /\ Len(list) < RecLimit

\* a failed fetchSearchPage that ends the pages of the term
PageAfterFailureBreak(pg) == MaxPage + 1

\* the page variable after a failed fetchSearchPage: "continue" runs page++
PageAfterFailure(pg) == pg + 1

\* a seed lookup whose error goes unnoticed
SeedFailedUnnoticed(out) == FALSE

\* favMovie, err := fetchMovie(...); if err != nil
SeedFailed(out) == ~out.ok

RecStart ==
    /\ pc = "start" /\ op = "rec"
    /\ \/ /\ param = <<>>
          /\ response' = [NoResponse EXCEPT !.status = 400]
          /\ pc' = "done"
          /\ UNCHANGED <<favMovie, seen, lastCall, prevCall>>
       \/ /\ param # <<>>
          /\ \E out \in SeedOutcomes(prov) :
                /\ Record("seed", 0, 0, 0, 0, out.ok)
                /\ \/ /\ SeedFailed(out)
                      /\ response' = [NoResponse EXCEPT !.status = 404]
                      /\ pc' = "done"
                      /\ UNCHANGED <<favMovie, seen>>
                   \/ /\ ~SeedFailed(out)
                      /\ favMovie' = out.movie
                      /\ seen' = InitSeen(out.movie)
                      /\ pc' = "rec_kw"
                      /\ response' = response
    /\ UNCHANGED <<op, param, prov, idx, page, items, itemIdx, results, axis,
                   recs, resolved, unranked>>

\* head of "for _, kw := range keywords" with a keyword left
RecKeyword ==
    /\ pc = "rec_kw" /\ idx <= Len(Keywords(axis))
    /\ \/ /\ SkipKeyword(Keywords(axis)[idx])
          /\ idx' = idx + 1
          /\ UNCHANGED <<pc, page>>
       \/ /\ ~SkipKeyword(Keywords(axis)[idx])
          /\ page' = 1
          /\ pc' = "rec_page"
          /\ idx' = idx
    /\ UNCHANGED <<op, param, prov, items, itemIdx, results, seen, favMovie,
                   axis, recs, response, lastCall, prevCall, resolved, unranked>>

\* search, err := fetchSearchPage(kw, page)
RecSearch ==
    /\ pc = "rec_page" /\ PageLoopRuns(page, results)
    /\ \E out \in SearchOutcomes(prov) :
          /\ prov' = out.prov
          /\ Record("search", axis, idx, page, 0, out.ok)
          /\ \/ /\ ~out.ok
                /\ page' = PageAfterFailure(page)
                /\ UNCHANGED <<pc, items, itemIdx>>
             \/ /\ out.ok /\ out.items = <<>>
                /\ page' = page + 1
                /\ UNCHANGED <<pc, items, itemIdx>>
             \/ /\ out.ok /\ out.items # <<>>
                /\ items' = out.items
                /\ itemIdx' = 1
                /\ pc' = "rec_item"
                /\ page' = page
    /\ UNCHANGED <<op, param, idx, results, seen, favMovie, axis, recs,
                   response, resolved, unranked>>

\* the page loop has ended: break out of the keyword loop at the limit,
\* otherwise go on to the next keyword
RecPagesDone ==
    /\ pc = "rec_page" /\ ~PageLoopRuns(page, results)
    /\ \/ /\ Len(results) >= RecLimit
          /\ pc' = "rec_rank"
          /\ idx' = idx
       \/ /\ Len(results) < RecLimit
          /\ pc' = "rec_kw"
          /\ idx' = idx + 1
    /\ UNCHANGED <<op, param, prov, page, items, itemIdx, results, seen,
                   favMovie, axis, recs, response, lastCall, prevCall, resolved, unranked>>

\* the body of "for _, s := range search.Search"
RecResolve ==
    /\ pc = "rec_item"
    /\ LET s == items[itemIdx]
           \* what follows the body: the next item, or page++ after the
           \* last item or after "break"
           Advance(full) ==
               IF itemIdx < Len(items) /\ ~full
               THEN /\ itemIdx' = itemIdx + 1
                    /\ UNCHANGED <<pc, page, items>>
               ELSE /\ page' = page + 1
                    /\ pc' = "rec_page"
                    /\ items' = <<>>
                    /\ itemIdx' = 1
       IN  \/ /\ s \in seen
              /\ Advance(FALSE)
              /\ UNCHANGED <<results, seen, lastCall, prevCall, resolved>>
           \/ /\ s \notin seen
              /\ \E out \in MovieOutcomes(prov, s, {<<"a">>}) :
                    /\ Record("movie", axis, idx, page, s, out.ok)
                    /\ resolved' = IF out.ok THEN Append(resolved, out.movie)
                                             ELSE resolved
                    /\ \/ /\ Rejected(out)
                          /\ Advance(FALSE)
                          /\ UNCHANGED <<results, seen>>
                       \/ /\ ~Rejected(out)
                          /\ seen' = seen \cup {s}
                          /\ results' = Append(results,
                                               Entry(out.movie, AxisName(axis)))
                          /\ Advance(Len(results) + 1 >= RecLimit)
    /\ UNCHANGED <<op, param, prov, idx, favMovie, axis, recs, response,
                   unranked>>

\* the keyword loop has ended: sort.Slice and return results; after the
\* third collect call, c.JSON(http.StatusOK, ...)
RecRank ==
    /\ \/ pc = "rec_rank"
       \/ pc = "rec_kw" /\ idx > Len(Keywords(axis))
    /\ \E ranked \in SortSlice(results) :
          /\ recs' = [recs EXCEPT ![axis] = ranked]
          /\ unranked' = [unranked EXCEPT ![axis] = results]
          /\ \/ /\ axis < 3
                /\ axis' = axis + 1
                /\ idx' = 1
                /\ results' = <<>>
                /\ pc' = "rec_kw"
                /\ response' = response
             \/ /\ axis = 3
                /\ response' = [NoResponse EXCEPT !.status = 200, !.recs = recs']
                /\ pc' = "done"
                /\ UNCHANGED <<axis, idx, results>>
    /\ UNCHANGED <<op, param, prov, page, items, itemIdx, seen, favMovie,
                   lastCall, prevCall, resolved>>

----------------------------------------------------------------------------
Next ==
    \/ GenreStart
    \/ GenreSearch
    \/ GenreResolve
    \/ GenreRespond
    \/ RecStart
    \/ RecKeyword
    \/ RecSearch
    \/ RecPagesDone
    \/ RecResolve
    \/ RecRank

Spec == Init /\ [][Next]_vars

----------------------------------------------------------------------------
(* Vocabulary of the properties *)

Done == pc = "done"
Succeeded == Done /\ response.status = 200

\* the lists of the response
OutLists ==
    IF op = "genre" THEN {response.movies}
    ELSE {response.recs[a] : a \in 1..3}

Ids(list) == {list[i].imdbID : i \in 1..Len(list)}
Ords(list) == {list[i].ord : i \in 1..Len(list)}
Elems(list) == {list[i] : i \in 1..Len(list)}

NoRepeatedId(list) ==
    \A i, j \in 1..Len(list) : i # j => list[i].imdbID # list[j].imdbID

Descending(list) ==
    \A i \in 1..(Len(list) - 1) : Rating(list[i]) >= Rating(list[i + 1])

\* the limit of the list the response holds for axis a
LimitOf(a) == IF op = "genre" THEN GenreLimit ELSE RecLimit
OutList(a) == IF op = "genre" THEN response.movies ELSE response.recs[a]
OutAxes == IF op = "genre" THEN {1} ELSE 1..3

\* C1: no identifier occurs twice in the category list, nor twice across
\* the Genre, Director and Actor lists taken together
C1_NoDuplicateIds ==
    Succeeded =>
        /\ NoRepeatedId(response.movies)
        /\ NoRepeatedId(response.recs[1] \o response.recs[2] \o response.recs[3])

\* C2: no entry of a returned list has the score "N/A" or a score that
\* does not parse as a number
C2_ScoresParse ==
    Succeeded =>
        \A list \in OutLists : \A i \in 1..Len(list) :
            /\ list[i].imdbRating # "N/A"
            /\ ~ParseFloat(list[i].imdbRating).err

\* C3: in every returned list the numeric score of an entry is at least
\* the numeric score of the entry after it
C3_RankDescending ==
    Succeeded => \A list \in OutLists : Descending(list)

\* a returned list of two or more entries that sort.Slice had to reorder
C3_Witness ==
    /\ Succeeded
    /\ \E a \in OutAxes :
          /\ Len(OutList(a)) >= 2
          /\ OutList(a) # unranked[a]
          /\ Rating(OutList(a)[1]) > Rating(OutList(a)[Len(OutList(a))])

\* C4: each returned list holds min(L, n) of the n accepted candidates,
\* in descending order of score, and no accepted candidate left out has a
\* strictly higher score than one that was kept
C4_CapAfterRank ==
    Succeeded =>
        \A a \in OutAxes :
            /\ Len(OutList(a)) = Min(LimitOf(a), Len(unranked[a]))
            /\ Ords(OutList(a)) \subseteq Ords(unranked[a])
            /\ Cardinality(Ords(OutList(a))) = Len(OutList(a))
            /\ Elems(OutList(a)) \subseteq Elems(unranked[a])
            /\ \A u \in Elems(unranked[a]) \ Elems(OutList(a)) :
                  \A k \in Elems(OutList(a)) : Rating(u) <= Rating(k)

\* more candidates accepted than the limit, and some were cut
C4_Witness ==
    /\ Succeeded
    /\ op = "genre"
    /\ Len(unranked[1]) > GenreLimit
    /\ Len(response.movies) = GenreLimit
    /\ \E u \in Elems(unranked[1]) \ Elems(response.movies) :
          \E k \in Elems(unranked[1]) : Rating(u) < Rating(k)

\* C5: the identifier of the seed movie is in none of the three lists
C5_SeedExcluded ==
    /\ op = "rec" => favMovie.IMDBID \notin Ids(results)
    /\ (Succeeded /\ op = "rec") =>
          \A a \in 1..3 : favMovie.IMDBID \notin Ids(response.recs[a])

\* the seed's identifier came in the middle of a page: the bulk stub's
\* pages hold consecutive ids, and both neighbours of the seed were taken
C5_Witness ==
    /\ Succeeded
    /\ op = "rec"
    /\ prov.mode = "bulk"
    /\ {favMovie.IMDBID - 1, favMovie.IMDBID + 1} \subseteq Ids(response.recs[1])

\* the same letter, in either case
SameLetter(c, d) ==
    \/ c = d
    \/ {c, d} \in {{"a", "A"}, {"b", "B"}, {"c", "C"}, {"d", "D"}, {"n", "N"}}

\* field[i..j] is one tag of the comma-delimited field
IsTag(field, i, j) ==
    /\ i = 1 \/ field[i - 1] = ","
    /\ j = Len(field) \/ field[j + 1] = ","
    /\ \A k \in i..j : field[k] # ","

\* some tag of the field is the category value once the blanks around it
\* are dropped, letter case aside
HasTag(field, genre) ==
    \E i \in 1..Len(field) : \E j \in i..Len(field) :
        /\ IsTag(field, i, j)
        /\ \E x \in i..j :
              LET y == x + Len(genre) - 1
              IN  /\ y <= j
                  /\ \A k \in i..(x - 1) : field[k] = " "
                  /\ \A k \in (y + 1)..j : field[k] = " "
                  /\ \A k \in 1..Len(genre) :
                        SameLetter(field[x + k - 1], genre[k])

\* the lookups of a category search that returned a qualifying record
Qualifying ==
    {k \in 1..Len(resolved) :
        /\ resolved[k].IMDBRating # "N/A"
        /\ HasTag(resolved[k].Genre, param)}

\* C6: when the seed cannot be resolved the request ends at once with
\* "Favorite movie not found" (404): no list, no lookup and no search
\* follows; a request that names a favourite movie fails in no other way
C6_SeedNotFoundOnly ==
    /\ (lastCall.kind = "seed" /\ ~lastCall.ok) =>
          /\ Done
          /\ response = [NoResponse EXCEPT !.status = 404]
          /\ lastCall.n = 1
          /\ resolved = <<>>
          /\ results = <<>> /\ recs = << <<>>, <<>>, <<>> >>
    /\ (Done /\ op = "rec" /\ param # <<>>) =>
          /\ response.status \in {200, 404}
          /\ response.status = 404 <=> (lastCall.kind = "seed" /\ ~lastCall.ok)

\* the seed lookup failed and the request is over
C6_Witness ==
    /\ Done /\ op = "rec"
    /\ response.status = 404
    /\ lastCall.kind = "seed" /\ ~lastCall.ok

\* a validated request whose seed, if it needs one, was resolved
PastSeed == param # <<>> /\ (op = "rec" => favMovie # NoMovie)

\* the lookups that returned a record with a score other than "N/A"
Scored == {k \in 1..Len(resolved) : resolved[k].IMDBRating # "N/A"}

\* C7: a failed search or a failed lookup never fails the request: it still
\* ends with status 200, every entry it returns is the record a successful
\* lookup returned, nothing that a successful lookup contributed is missing,
\* and the lists are empty when no lookup succeeded
C7_FailuresAbsorbed ==
    /\ (lastCall.kind \in {"search", "movie"} /\ ~lastCall.ok) =>
          response.status \in {0, 200}
    /\ (Done /\ PastSeed) =>
          /\ response.status = 200
          /\ \A a \in OutAxes : \A i \in 1..Len(OutList(a)) :
                LET e == OutList(a)[i]
                IN  /\ e.ord \in Scored
                    /\ resolved[e.ord].IMDBID = e.imdbID
                    /\ resolved[e.ord].IMDBRating = e.imdbRating
                    /\ resolved[e.ord].Genre = e.Genre
          /\ op = "rec" =>
                UNION {Ords(response.recs[a]) : a \in 1..3} = Scored
          /\ (op = "genre" /\ Cardinality(Qualifying) <= GenreLimit) =>
                Ords(response.movies) = Qualifying
          /\ resolved = <<>> => \A a \in OutAxes : OutList(a) = <<>>

\* the last provider call failed, earlier ones did not, and the response
\* holds what they gave
C7_Witness ==
    /\ Succeeded
    /\ ~lastCall.ok
    /\ \E a \in OutAxes : OutList(a) # <<>>

\* C8: category search accepts a resolved candidate exactly when its score
\* is not "N/A" and one of its tags is the category value; every entry of
\* the result has such a tag, and the result has as many entries as there
\* are qualifying candidates, up to the limit
C8_CategoryAcceptance ==
    /\ (op = "genre" /\ param # <<>>) => Ords(results) = Qualifying
    /\ (Succeeded /\ op = "genre") =>
          /\ \A i \in 1..Len(response.movies) :
                /\ HasTag(response.movies[i].Genre, param)
                /\ response.movies[i].imdbRating # "N/A"
          /\ Len(response.movies) = Min(Cardinality(Qualifying), GenreLimit)

\* 20 candidates resolved, 12 of them qualify, 12 entries returned
C8_Witness ==
    /\ Succeeded /\ op = "genre"
    /\ Len(resolved) = 20
    /\ Cardinality(Qualifying) = 12
    /\ Len(response.movies) = 12

\* the latest two provider calls are searches for the same term of the
\* same collect call
SameTerm ==
    /\ prevCall.kind = "search" /\ lastCall.kind = "search"
    /\ prevCall.axis >= 1 /\ lastCall.axis = prevCall.axis
    /\ lastCall.idx = prevCall.idx

\* C9 as stated: after the fetch of page p of a term failed, no later page
\* of that term is requested
C9_FailureEndsTerm ==
    (SameTerm /\ ~prevCall.ok) => lastCall.page <= prevCall.page

\* C9, amended: a failed fetch of page p skips that page only; while p < 3
\* the next provider call is the fetch of page p + 1 of the same term, and
\* after a failed page 3 the next call is for another term
C9_FailureSkipsPage ==
    (prevCall.kind = "search" /\ prevCall.axis >= 1 /\ ~prevCall.ok) =>
        IF prevCall.page < MaxPage
        THEN SameTerm /\ lastCall.page = prevCall.page + 1
        ELSE ~SameTerm

\* page 1 of a term failed and page 2 of the same term was fetched next
C9_Witness ==
    /\ SameTerm
    /\ ~prevCall.ok /\ prevCall.page = 1
    /\ lastCall.page = 2 /\ lastCall.ok

\* C10: two entries of a returned list with the same numeric score stand
\* in the order in which they were accepted
C10_TiesKeepDiscoveryOrder ==
    Succeeded =>
        \A list \in OutLists : \A i, j \in 1..Len(list) :
            (i < j /\ Rating(list[i]) = Rating(list[j])) =>
                list[i].ord < list[j].ord

----------------------------------------------------------------------------
(* Provider calls that never answer *)

\* the handler is about to call fetchFromOMDb
AtCall ==
    \/ pc = "start" /\ op = "rec" /\ param # <<>>
    \/ pc = "gen_seed" /\ idx <= Len(SearchSeeds)
    \/ pc = "gen_item"
    \/ pc = "rec_page" /\ PageLoopRuns(page, results)
    \/ pc = "rec_item" /\ items[itemIdx] \notin seen

\* resp, err := http.Get(url) with a provider that never answers: the
\* default client has no timeout, and nothing else interrupts the call, so
\* the handler stays in http.Get
NoAnswer ==
    /\ AtCall
    /\ pc' = "waiting"
    /\ UNCHANGED <<op, param, prov, idx, page, items, itemIdx, results, seen,
                   favMovie, axis, recs, response, lastCall, prevCall,
                   resolved, unranked>>

NextLive ==
    \/ Next
    \/ NoAnswer

\* the handler's goroutine keeps running while it has a step to take
SpecLive == Init /\ [][NextLive]_vars /\ WF_vars(NextLive)

\* C11: every request eventually reaches Done, whatever each provider call
\* does: answer, fail, or never answer
C11_EventuallyDone == <>Done

====
